---------------------------- MODULE Spec2Model ----------------------------
(***************************************************************************)
(* A model of the `exact` toolkit: ElGamal encryption and the Sigma        *)
(* protocols (Schnorr, Chaum-Pedersen, bit proof, shuffle proof) written   *)
(* generically over a prime-order group.                                   *)
(*                                                                         *)
(* The group is the cyclic group of prime order Order.  An element is      *)
(* represented by its discrete logarithm to the base G::generator(), so    *)
(* the generator is 1, the identity is 0, add_element is addition modulo   *)
(* Order and scalar_mul is multiplication modulo Order.  Scalars are the   *)
(* field of integers modulo Order.                                         *)
(***************************************************************************)
EXTENDS Integers, Sequences, FiniteSets, TLC

(***************************************************************************)
(* Bounds.  The group order is the OrderIndex-th small prime.              *)
(***************************************************************************)
OrderIndex == 3

SmallPrimes == <<2, 3, 5, 7, 11, 13>>

Order == SmallPrimes[OrderIndex]

Scalars == 0 .. (Order - 1)

Elements == 0 .. (Order - 1)

\* The values the rng is let return where a protocol draws several scalars.
MaxSample == 2

SampleScalars == 0 .. MaxSample

VARIABLES
    call,     \* the operation that ran last
    input,    \* the arguments of the protocol run (statement and witness)
    issued,   \* the proof or ciphertext as the prover/encryptor returned it
    proof,    \* the proof or ciphertext handed to verify/decrypt
    oracle,   \* hash_to_scalar: the byte strings hashed so far and their digests
    verdict   \* the value returned by the last verify / decrypt

vars == <<call, input, issued, proof, oracle, verdict>>

None == "none"

(***************************************************************************)
(* GroupScalar (src/src/groups/ristretto255/scalar.rs)                     *)
(***************************************************************************)
scalar_zero == 0

scalar_one == 1

scalar_add(a, b) == (a + b) % Order

scalar_sub(a, b) == (a + Order - b) % Order

scalar_mul_s(a, b) == (a * b) % Order

scalar_negate(a) == (Order - a) % Order

(***************************************************************************)
(* GroupElement (src/src/groups/ristretto255/element.rs)                   *)
(***************************************************************************)
identity == 0

generator == 1

add_element(a, b) == (a + b) % Order

negate_element(a) == (Order - a) % Order

scalar_mul(e, s) == (e * s) % Order

(***************************************************************************)
(* Fixed-length little-endian encodings of scalars and elements, and the   *)
(* concatenation of slices that update_hasher_with_slices feeds the digest.*)
(***************************************************************************)
ByteBase == 256

write_bytes(e) == <<e % ByteBase, e \div ByteBase>>

RECURSIVE update_hasher_with_slices(_)
update_hasher_with_slices(slices) ==
    IF slices = <<>> THEN <<>>
    ELSE Head(slices) \o update_hasher_with_slices(Tail(slices))

\* hash_to_scalar is a fixed function of the hashed bytes: a byte string
\* hashed before yields the digest it yielded then; a new byte string may
\* yield any scalar (fresh).
hash_to_scalar(table, slices, fresh) ==
    LET bytes == update_hasher_with_slices(slices)
    IN  IF bytes \in DOMAIN table THEN table[bytes] ELSE fresh

record_hash(table, slices, fresh) ==
    LET bytes == update_hasher_with_slices(slices)
    IN  IF bytes \in DOMAIN table THEN table ELSE (bytes :> fresh) @@ table

EmptyOracle == [bytes \in {} |-> 0]

\* the digests a hash of these slices may return, given the table so far
Digests(table, slices) ==
    IF update_hasher_with_slices(slices) \in DOMAIN table
    THEN {table[update_hasher_with_slices(slices)]}
    ELSE Scalars

(***************************************************************************)
(* Schnorr proof of knowledge of x with y = g^x (src/src/zkp/schnorr.rs)   *)
(***************************************************************************)
Proof_new(t, s) == [t |-> t, s |-> s]

schnorr_transcript(public_y, t_element) ==
    <<write_bytes(generator), write_bytes(public_y), write_bytes(t_element)>>

\* a response with the sign of c*x flipped
schnorr_response_flipped(v_scalar, c_scalar, secret_x) ==
    scalar_sub(v_scalar, scalar_mul_s(c_scalar, secret_x))

\* s = v + c*x
schnorr_response(v_scalar, c_scalar, secret_x) ==
    scalar_add(v_scalar, scalar_mul_s(c_scalar, secret_x))

\* prove, with the nonce v drawn from the rng and the digest table passed in
schnorr_prove(secret_x, public_y, v_scalar, table, fresh) ==
    LET t_element == scalar_mul(generator, v_scalar)
        c_scalar  == hash_to_scalar(table, schnorr_transcript(public_y, t_element), fresh)
        s_scalar  == schnorr_response(v_scalar, c_scalar, secret_x)
    IN  Proof_new(t_element, s_scalar)

\* a verify that raises the public key, not the generator, to the response
schnorr_verify_base_y(public_y, pf, table, fresh) ==
    LET c_scalar == hash_to_scalar(table, schnorr_transcript(public_y, pf.t), fresh)
    IN  scalar_mul(public_y, pf.s) = add_element(pf.t, scalar_mul(public_y, c_scalar))

\* a verify that leaves the challenge out of the equation
schnorr_verify_no_challenge(public_y, pf, table, fresh) ==
    scalar_mul(generator, pf.s) = add_element(pf.t, public_y)

schnorr_verify(public_y, pf, table, fresh) ==
    LET c_scalar   == hash_to_scalar(table, schnorr_transcript(public_y, pf.t), fresh)
        g_s        == scalar_mul(generator, pf.s)
        y_c        == scalar_mul(public_y, c_scalar)
        t_plus_y_c == add_element(pf.t, y_c)
    IN  g_s = t_plus_y_c

SchnorrInit ==
    /\ call = "new"
    /\ input \in [secret_x : Scalars, public_y : Elements]
    /\ issued = None
    /\ proof = None
    /\ oracle = EmptyOracle
    /\ verdict = None

SchnorrProve ==
    /\ call = "new"
    /\ \E v_scalar \in Scalars, fresh \in Scalars :
          LET pf == schnorr_prove(input.secret_x, input.public_y, v_scalar, oracle, fresh)
          IN  /\ issued' = pf
              /\ proof' = pf
              /\ oracle' = record_hash(oracle, schnorr_transcript(input.public_y, pf.t), fresh)
    /\ call' = "prove"
    /\ UNCHANGED <<input, verdict>>

\* the caller rebuilds the proof with another response: Proof::new(t, s')
SchnorrTamper ==
    /\ call = "prove"
    /\ \E s_tampered \in Scalars \ {proof.s} :
          proof' = Proof_new(proof.t, s_tampered)
    /\ call' = "tamper"
    /\ UNCHANGED <<input, issued, oracle, verdict>>

SchnorrVerify ==
    /\ call \in {"prove", "tamper"}
    /\ \E fresh \in Digests(oracle, schnorr_transcript(input.public_y, proof.t)) :
          /\ verdict' = schnorr_verify(input.public_y, proof, oracle, fresh)
          /\ oracle' = record_hash(oracle, schnorr_transcript(input.public_y, proof.t), fresh)
    /\ call' = "verify"
    /\ UNCHANGED <<input, issued, proof>>

SchnorrNext == SchnorrProve \/ SchnorrTamper \/ SchnorrVerify

SpecSchnorr == SchnorrInit /\ [][SchnorrNext]_vars

\* the challenge the proof's transcript hashes to
SchnorrChallenge == oracle[update_hasher_with_slices(schnorr_transcript(input.public_y, proof.t))]

\* C3: Schnorr completeness: whenever y = g^x, verify(y, prove(x, y)) is true,
\* for every nonce and every challenge value.
C3_SchnorrCompleteness ==
    (call = "verify" /\ proof = issued /\ input.public_y = scalar_mul(generator, input.secret_x))
        => verdict = TRUE

C3_Witness ==
    /\ call = "verify"
    /\ proof = issued
    /\ input.public_y = scalar_mul(generator, input.secret_x)
    /\ input.secret_x # 0
    /\ SchnorrChallenge # 0
    /\ verdict = TRUE

\* C8: Schnorr tamper detection: a proof (t, s') with s' different from the
\* response s that prove returned for y = g^x is rejected by verify.
C8_SchnorrTamperDetected ==
    (call = "verify" /\ proof.t = issued.t /\ proof.s # issued.s
       /\ input.public_y = scalar_mul(generator, input.secret_x))
        => verdict = FALSE

C8_Witness ==
    /\ call = "verify"
    /\ proof.t = issued.t
    /\ proof.s # issued.s
    /\ input.public_y = scalar_mul(generator, input.secret_x)
    /\ verdict = FALSE

(***************************************************************************)
(* Chaum-Pedersen proof of equal discrete logarithms                       *)
(* (src/src/zkp/chaum_pedersen.rs)                                         *)
(***************************************************************************)
CPProof_new(commitments, response) == [t |-> commitments, s |-> response]

cp_transcript(g1, g2, public_y1, public_y2, t1_element, t2_element) ==
    <<write_bytes(g1), write_bytes(g2), write_bytes(public_y1),
      write_bytes(public_y2), write_bytes(t1_element), write_bytes(t2_element)>>

\* a prove that commits to g2 with a nonce other than the one it answers with
cp_prove_two_nonces(secret_x, g1, g2, public_y1, public_y2, v_scalar, table, fresh) ==
    LET t1_element == scalar_mul(g1, v_scalar)
        t2_element == scalar_mul(g2, scalar_add(v_scalar, scalar_one))
        c_scalar   == hash_to_scalar(table,
                         cp_transcript(g1, g2, public_y1, public_y2, t1_element, t2_element), fresh)
    IN  CPProof_new(<<t1_element, t2_element>>,
                    scalar_add(v_scalar, scalar_mul_s(c_scalar, secret_x)))

cp_prove(secret_x, g1, g2, public_y1, public_y2, v_scalar, table, fresh) ==
    LET t1_element == scalar_mul(g1, v_scalar)
        t2_element == scalar_mul(g2, v_scalar)
        c_scalar   == hash_to_scalar(table,
                         cp_transcript(g1, g2, public_y1, public_y2, t1_element, t2_element), fresh)
        cx_scalar  == scalar_mul_s(c_scalar, secret_x)
        s_scalar   == scalar_add(v_scalar, cx_scalar)
    IN  CPProof_new(<<t1_element, t2_element>>, s_scalar)

\* a verify that returns after the first equation
cp_verify_first_only(g1, g2, public_y1, public_y2, pf, table, fresh) ==
    LET c_scalar == hash_to_scalar(table,
                       cp_transcript(g1, g2, public_y1, public_y2, pf.t[1], pf.t[2]), fresh)
    IN  scalar_mul(g1, pf.s) = add_element(pf.t[1], scalar_mul(public_y1, c_scalar))

cp_verify(g1, g2, public_y1, public_y2, pf, table, fresh) ==
    LET t1_element == pf.t[1]
        t2_element == pf.t[2]
        s_scalar   == pf.s
        c_scalar   == hash_to_scalar(table,
                         cp_transcript(g1, g2, public_y1, public_y2, t1_element, t2_element), fresh)
        g1_s       == scalar_mul(g1, s_scalar)
        y1_c       == scalar_mul(public_y1, c_scalar)
        t1_y1_c    == add_element(t1_element, y1_c)
        check1     == g1_s = t1_y1_c
        g2_s       == scalar_mul(g2, s_scalar)
        y2_c       == scalar_mul(public_y2, c_scalar)
        t2_y2_c    == add_element(t2_element, y2_c)
        check2     == g2_s = t2_y2_c
    IN  check1 /\ check2

\* The caller knows x and publishes y1 = g1^x; y2 = g2^x2 is published with
\* an exponent x2 that may or may not be x.
CPInit ==
    /\ call = "new"
    /\ \E secret_x \in Scalars, x2 \in Scalars, g1 \in Elements, g2 \in Elements :
          input = [secret_x |-> secret_x, x2 |-> x2, g1 |-> g1, g2 |-> g2,
                   public_y1 |-> scalar_mul(g1, secret_x),
                   public_y2 |-> scalar_mul(g2, x2)]
    /\ issued = None
    /\ proof = None
    /\ oracle = EmptyOracle
    /\ verdict = None

CPTranscript(pf) ==
    cp_transcript(input.g1, input.g2, input.public_y1, input.public_y2, pf.t[1], pf.t[2])

CPProve ==
    /\ call = "new"
    /\ \E v_scalar \in SampleScalars, fresh \in Scalars :
          LET pf == cp_prove(input.secret_x, input.g1, input.g2, input.public_y1,
                             input.public_y2, v_scalar, oracle, fresh)
          IN  /\ issued' = pf
              /\ proof' = pf
              /\ oracle' = record_hash(oracle, CPTranscript(pf), fresh)
    /\ call' = "prove"
    /\ UNCHANGED <<input, verdict>>

\* the caller rebuilds the proof with another response: CPProof::new([t1, t2], s')
CPTamper ==
    /\ call = "prove"
    /\ \E s_tampered \in Scalars \ {proof.s} :
          proof' = CPProof_new(proof.t, s_tampered)
    /\ call' = "tamper"
    /\ UNCHANGED <<input, issued, oracle, verdict>>

CPVerify ==
    /\ call \in {"prove", "tamper"}
    /\ \E fresh \in Digests(oracle, CPTranscript(proof)) :
          /\ verdict' = cp_verify(input.g1, input.g2, input.public_y1, input.public_y2,
                                  proof, oracle, fresh)
          /\ oracle' = record_hash(oracle, CPTranscript(proof), fresh)
    /\ call' = "verify"
    /\ UNCHANGED <<input, issued, proof>>

CPNext == CPProve \/ CPTamper \/ CPVerify

SpecCP == CPInit /\ [][CPNext]_vars

\* the challenge the proof's transcript hashes to
CPChallenge == oracle[update_hasher_with_slices(CPTranscript(proof))]

\* the two verification equations, evaluated on the state
CPCheck1 ==
    scalar_mul(input.g1, proof.s)
        = add_element(proof.t[1], scalar_mul(input.public_y1, CPChallenge))

CPCheck2 ==
    scalar_mul(input.g2, proof.s)
        = add_element(proof.t[2], scalar_mul(input.public_y2, CPChallenge))

\* C4: Chaum-Pedersen completeness: with y1 = g1^x and y2 = g2^x (the same
\* x, bases equal or different), the proof returned by prove verifies, for
\* every nonce and every challenge.
C4_CPCompleteness ==
    (call = "verify" /\ proof = issued /\ input.public_y2 = scalar_mul(input.g2, input.secret_x))
        => verdict = TRUE

C4_Witness ==
    /\ call = "verify"
    /\ proof = issued
    /\ input.x2 = input.secret_x
    /\ input.secret_x # 0
    /\ input.g1 # input.g2
    /\ input.g1 # identity
    /\ input.g2 # identity
    /\ CPChallenge # 0
    /\ verdict = TRUE

\* C7 as stated: if y2 = g2^x2 with x2 # x, the proof returned by prove is
\* rejected.
C7_Original ==
    (call = "verify" /\ proof = issued /\ input.x2 # input.secret_x)
        => verdict = FALSE

\* C7 amended: verify accepts exactly when both equations hold; and with
\* x2 # x the proof returned by prove is rejected whenever the challenge is
\* not the zero scalar and g2 is not the identity.
C7_CPRejectsUnequalExponents ==
    call = "verify"
        => /\ verdict = (CPCheck1 /\ CPCheck2)
           /\ (proof = issued /\ input.x2 # input.secret_x
                 /\ CPChallenge # 0 /\ input.g2 # identity)
                => verdict = FALSE

C7_Witness ==
    /\ call = "verify"
    /\ proof = issued
    /\ input.x2 # input.secret_x
    /\ CPChallenge # 0
    /\ input.g2 # identity
    /\ CPCheck1
    /\ ~CPCheck2
    /\ verdict = FALSE

\* C9 as stated: for every pair of bases, a proof with a response s' # s is
\* rejected.
C9_Original ==
    (call = "verify" /\ proof.t = issued.t /\ proof.s # issued.s
       /\ input.x2 = input.secret_x)
        => verdict = FALSE

\* C9 amended: a proof with a response s' # s is rejected whenever at least
\* one of the bases g1, g2 is not the identity element.
C9_CPTamperDetected ==
    (call = "verify" /\ proof.t = issued.t /\ proof.s # issued.s
       /\ input.x2 = input.secret_x
       /\ (input.g1 # identity \/ input.g2 # identity))
        => verdict = FALSE

C9_Witness ==
    /\ call = "verify"
    /\ proof.t = issued.t
    /\ proof.s # issued.s
    /\ input.x2 = input.secret_x
    /\ input.g1 = identity
    /\ input.g2 # identity
    /\ verdict = FALSE

(***************************************************************************)
(* ElGamal key pairs, encryption and decryption (src/src/elgamal.rs)       *)
(***************************************************************************)
ElGamal_new(gr, mhr) == [gr |-> gr, mhr |-> mhr]

\* KeyPair::new with the secret scalar the rng returned
KeyPair_new(secret_scalar) ==
    [pkey |-> scalar_mul(generator, secret_scalar), skey |-> secret_scalar]

\* encrypt with the nonce r the rng returned
encrypt(message, key, r_scalar) ==
    LET gr      == scalar_mul(generator, r_scalar)
        y_pow_r == scalar_mul(key.pkey, r_scalar)
        mhr     == add_element(message, y_pow_r)
    IN  ElGamal_new(gr, mhr)

\* a decrypt that multiplies by (g^r)^x instead of dividing by it
decrypt_no_negate(ciphertext, key) ==
    add_element(ciphertext.mhr, scalar_mul(ciphertext.gr, key.skey))

decrypt(ciphertext, key) ==
    LET gr_pow_x == scalar_mul(ciphertext.gr, key.skey)
    IN  add_element(ciphertext.mhr, negate_element(gr_pow_x))

ElGamalInit ==
    /\ call = "new"
    /\ input = [key |-> None, message |-> None]
    /\ issued = None
    /\ proof = None
    /\ oracle = EmptyOracle
    /\ verdict = None

KeyPairNew ==
    /\ call = "new"
    /\ \E secret_scalar \in Scalars :
          input' = [input EXCEPT !.key = KeyPair_new(secret_scalar)]
    /\ call' = "keypair"
    /\ UNCHANGED <<issued, proof, oracle, verdict>>

Encrypt ==
    /\ call = "keypair"
    /\ \E message \in Elements, r_scalar \in Scalars :
          /\ input' = [input EXCEPT !.message = message]
          /\ issued' = encrypt(message, input.key, r_scalar)
          /\ proof' = encrypt(message, input.key, r_scalar)
    /\ call' = "encrypt"
    /\ UNCHANGED <<oracle, verdict>>

Decrypt ==
    /\ call = "encrypt"
    /\ verdict' = decrypt(proof, input.key)
    /\ call' = "decrypt"
    /\ UNCHANGED <<input, issued, proof, oracle>>

ElGamalNext == KeyPairNew \/ Encrypt \/ Decrypt

SpecElGamal == ElGamalInit /\ [][ElGamalNext]_vars

\* C2: ElGamal round trip: for every key pair from KeyPair::new, every
\* message and every nonce, decrypt(encrypt(m, k), k) = m.
C2_ElGamalRoundTrip ==
    call = "decrypt" => verdict = input.message

C2_Witness ==
    /\ call = "decrypt"
    /\ input.key.skey # 0
    /\ input.message # identity
    /\ proof.gr # identity
    /\ proof.mhr # input.message
    /\ verdict = input.message

(***************************************************************************)
(* Product<T, N>: fixed-length vectors, with the group and field           *)
(* operations applied position by position.                                *)
(***************************************************************************)
Product_uniform(value, n) == [i \in 1 .. n |-> value]

Product_scalar_mul(elements, scalars) ==
    [i \in DOMAIN elements |-> scalar_mul(elements[i], scalars[i])]

Product_add_element(a, b) == [i \in DOMAIN a |-> add_element(a[i], b[i])]

Product_negate_element(a) == [i \in DOMAIN a |-> negate_element(a[i])]

Product_mul(a, b) == [i \in DOMAIN a |-> scalar_mul_s(a[i], b[i])]

Product_add(a, b) == [i \in DOMAIN a |-> scalar_add(a[i], b[i])]

\* Product::serialize of a vector of elements: item i at bytes [i*size, (i+1)*size)
RECURSIVE Product_serialize(_)
Product_serialize(items) ==
    IF items = <<>> THEN <<>>
    ELSE write_bytes(Head(items)) \o Product_serialize(Tail(items))

\* Product::serialize of a vector of vectors of elements
RECURSIVE Product2_serialize(_)
Product2_serialize(rows) ==
    IF rows = <<>> THEN <<>>
    ELSE Product_serialize(Head(rows)) \o Product2_serialize(Tail(rows))

(***************************************************************************)
(* Bit proof: an ElGamal ciphertext encrypts 0 or 1 (src/src/zkp/bit.rs)   *)
(***************************************************************************)
BitProof_new(c, response) == [B |-> c, D |-> response]

\* hom with the exponent b left out of the second coordinate
hom_no_cb(big_g, big_h, big_c, b, r, s, t) ==
    <<Product_add_element(Product_scalar_mul(big_h, Product_uniform(b, 2)),
                          Product_scalar_mul(big_g, Product_uniform(r, 2))),
      Product_add_element(big_c, Product_scalar_mul(big_g, Product_uniform(s, 2))),
      Product_scalar_mul(big_g, Product_uniform(t, 2))>>

\* f(b,r,s,t) = (H^b G^r, C^b G^s, G^t)
hom(big_g, big_h, big_c, b, r, s, t) ==
    LET b_2     == Product_uniform(b, 2)
        r_2     == Product_uniform(r, 2)
        s_2     == Product_uniform(s, 2)
        t_2     == Product_uniform(t, 2)
        h_pow_b == Product_scalar_mul(big_h, b_2)
        g_pow_r == Product_scalar_mul(big_g, r_2)
        prod    == Product_add_element(h_pow_b, g_pow_r)
        c_pow_b == Product_scalar_mul(big_c, b_2)
        g_pow_s == Product_scalar_mul(big_g, s_2)
        cb_gs   == Product_add_element(c_pow_b, g_pow_s)
        g_pow_t == Product_scalar_mul(big_g, t_2)
    IN  <<prod, cb_gs, g_pow_t>>

bit_transcript(big_b, ciphertext, c_prime) ==
    <<Product2_serialize(big_b), Product_serialize(ciphertext), Product_serialize(c_prime)>>

\* prove, with the scalars r, s, t drawn from the rng passed in
bit_prove(bit, r_real, s_real, ciphertext, c_prime, y, r, s, t, table, fresh) ==
    LET big_g     == <<generator, y>>
        big_h     == <<identity, generator>>
        big_a     == <<bit, r, s, t>>
        big_b     == hom(big_g, big_h, ciphertext, bit, r, s, t)
        challenge == hash_to_scalar(table, bit_transcript(big_b, ciphertext, c_prime), fresh)
        v_4       == Product_uniform(challenge, 4)
        t_real    == scalar_add(scalar_mul_s(r_real, scalar_sub(bit, scalar_one)), s_real)
        big_x     == <<bit, r_real, s_real, t_real>>
        vx        == Product_mul(v_4, big_x)
        big_d     == Product_add(vx, big_a)
    IN  BitProof_new(big_b, big_d)

\* a verify that leaves the third coordinate (C'' = C'/C against G^t) unchecked
bit_verify_two_coordinates(pf, ciphertext, c_prime, y, table, fresh) ==
    LET big_g     == <<generator, y>>
        big_h     == <<identity, generator>>
        challenge == hash_to_scalar(table, bit_transcript(pf.B, ciphertext, c_prime), fresh)
        v_2       == Product_uniform(challenge, 2)
        rhs       == hom(big_g, big_h, ciphertext, pf.D[1], pf.D[2], pf.D[3], pf.D[4])
    IN  /\ Product_add_element(Product_scalar_mul(ciphertext, v_2), pf.B[1]) = rhs[1]
        /\ Product_add_element(Product_scalar_mul(c_prime, v_2), pf.B[2]) = rhs[2]

bit_verify(pf, ciphertext, c_prime, y, table, fresh) ==
    LET big_g     == <<generator, y>>
        big_h     == <<identity, generator>>
        challenge == hash_to_scalar(table, bit_transcript(pf.B, ciphertext, c_prime), fresh)
        c_inv     == Product_negate_element(ciphertext)
        c_prime_2 == Product_add_element(c_prime, c_inv)
        big_y     == <<ciphertext, c_prime, c_prime_2>>
        v_2       == Product_uniform(challenge, 2)
        v_2_3     == Product_uniform(v_2, 3)
        resp      == pf.D
        y_pow_v   == [i \in 1 .. 3 |-> Product_scalar_mul(big_y[i], v_2_3[i])]
        lhs       == [i \in 1 .. 3 |-> Product_add_element(y_pow_v[i], pf.B[i])]
        rhs       == hom(big_g, big_h, ciphertext, resp[1], resp[2], resp[3], resp[4])
    IN  lhs = rhs

\* The statement as test_bit_zkp_prove builds it, for a scalar b that need
\* not be a bit: C = (g^r, g^b y^r) and C' = C^b G^s with G = (g, y).
BitInit ==
    /\ call = "new"
    /\ \E b \in Scalars, skey \in SampleScalars, r \in SampleScalars, s \in SampleScalars :
          LET y       == scalar_mul(generator, skey)
              message == scalar_mul(generator, b)
              gr      == scalar_mul(generator, r)
              hr      == scalar_mul(y, r)
              mhr     == add_element(hr, message)
              c       == <<gr, mhr>>
              big_g   == <<generator, y>>
              c_pow_b == Product_scalar_mul(c, Product_uniform(b, 2))
              g_pow_s == Product_scalar_mul(big_g, Product_uniform(s, 2))
              c_prime == Product_add_element(c_pow_b, g_pow_s)
          IN  input = [bit |-> b, r_real |-> r, s_real |-> s, y |-> y,
                       ciphertext |-> c, c_prime |-> c_prime]
    /\ issued = None
    /\ proof = None
    /\ oracle = EmptyOracle
    /\ verdict = None

BitProve ==
    /\ call = "new"
    /\ \E r \in SampleScalars, s \in SampleScalars, t \in SampleScalars, fresh \in Scalars :
          LET pf == bit_prove(input.bit, input.r_real, input.s_real, input.ciphertext,
                              input.c_prime, input.y, r, s, t, oracle, fresh)
          IN  /\ issued' = pf
              /\ proof' = pf
              /\ oracle' = record_hash(oracle,
                              bit_transcript(pf.B, input.ciphertext, input.c_prime), fresh)
    /\ call' = "prove"
    /\ UNCHANGED <<input, verdict>>

BitVerify ==
    /\ call = "prove"
    /\ \E fresh \in Digests(oracle, bit_transcript(proof.B, input.ciphertext, input.c_prime)) :
          /\ verdict' = bit_verify(proof, input.ciphertext, input.c_prime, input.y,
                                   oracle, fresh)
          /\ oracle' = record_hash(oracle,
                          bit_transcript(proof.B, input.ciphertext, input.c_prime), fresh)
    /\ call' = "verify"
    /\ UNCHANGED <<input, issued, proof>>

BitNext == BitProve \/ BitVerify

SpecBit == BitInit /\ [][BitNext]_vars

\* the challenge the proof's transcript hashes to
BitChallenge ==
    oracle[update_hasher_with_slices(
              bit_transcript(proof.B, input.ciphertext, input.c_prime))]

\* C5: bit-proof completeness: for b in {0,1} and the statement built as
\* above, verify accepts the proof returned by prove, for every choice of
\* the prover's scalars and every challenge.
C5_BitCompleteness ==
    (call = "verify" /\ input.bit \in {0, 1}) => verdict = TRUE

C5_Witness ==
    /\ call = "verify"
    /\ input.bit = 1
    /\ input.r_real # 0
    /\ input.s_real # 0
    /\ input.y # identity
    /\ BitChallenge # 0
    /\ verdict = TRUE

\* C6 as stated: for every b outside {0,1} the proof returned by prove is
\* rejected.
C6_Original ==
    (call = "verify" /\ input.bit \notin {0, 1}) => verdict = FALSE

\* C6 amended: for b outside {0,1} the proof returned by prove is rejected
\* exactly when the challenge is not the zero scalar.
C6_BitRejectsNonBits ==
    (call = "verify" /\ input.bit \notin {0, 1}) => (verdict = FALSE <=> BitChallenge # 0)

C6_Witness ==
    /\ call = "verify"
    /\ input.bit = 2
    /\ BitChallenge # 0
    /\ verdict = FALSE

(***************************************************************************)
(* Shuffle proof (src/src/zkp/shuffle.rs).  A ciphertext is a pair of      *)
(* elements; the vectors of an instance of size n are sequences of length  *)
(* n.  A permutation is kept as the code keeps it, as scalars naming the   *)
(* 0-based new index of each position.                                     *)
(***************************************************************************)
Ciphertext_new(a, b) == <<a, b>>

ciphertext_mul(c1, c2) ==
    Ciphertext_new(add_element(c1[1], c2[1]), add_element(c1[2], c2[2]))

ciphertext_exp(c, s) ==
    Ciphertext_new(scalar_mul(c[1], s), scalar_mul(c[2], s))

ciphertext_inv(c) ==
    Ciphertext_new(negate_element(c[1]), negate_element(c[2]))

compute_perm_commitment(pi_j, k_j, g_P, h_P) ==
    LET term1 == scalar_mul(g_P, pi_j)
        term2 == scalar_mul(h_P, k_j)
    IN  add_element(term1, term2)

\* a re-randomization that raises g, not pk, in the second component
rerandomize_ciphertext_same_base(c, pk, r_prime, g) ==
    Ciphertext_new(add_element(c[1], scalar_mul(g, r_prime)),
                   add_element(c[2], scalar_mul(g, r_prime)))

rerandomize_ciphertext(c, pk, r_prime, g) ==
    LET x_prime == add_element(c[1], scalar_mul(g, r_prime))
        y_prime == add_element(c[2], scalar_mul(pk, r_prime))
    IN  Ciphertext_new(x_prime, y_prime)

\* iter().fold(identity, add_element)
RECURSIVE fold_add_element(_)
fold_add_element(items) ==
    IF items = <<>> THEN identity
    ELSE add_element(fold_add_element(SubSeq(items, 1, Len(items) - 1)), items[Len(items)])

\* iter().fold(identity_ciphertext, ciphertext_mul)
RECURSIVE fold_ciphertext_mul(_)
fold_ciphertext_mul(items) ==
    IF items = <<>> THEN Ciphertext_new(identity, identity)
    ELSE ciphertext_mul(fold_ciphertext_mul(SubSeq(items, 1, Len(items) - 1)),
                        items[Len(items)])

\* iter().fold(zero, add)
RECURSIVE fold_scalar_add(_)
fold_scalar_add(items) ==
    IF items = <<>> THEN scalar_zero
    ELSE scalar_add(fold_scalar_add(SubSeq(items, 1, Len(items) - 1)), items[Len(items)])

\* Scalar::from_u64 for an index below the group order
from_u64(n) == n % Order

\* the largest integer a usize holds; scalars above it do not convert
UsizeMax == Order - 2

\* TryInto<usize> for a scalar: Ok(the integer the scalar stands for) when it
\* fits a usize, Err otherwise
try_into_usize(scalar) == [ok |-> scalar <= UsizeMax, value |-> scalar]

\* Option values: Some(value) and None
Some(value) == [is_some |-> TRUE, value |-> value]

Option_None == [is_some |-> FALSE]

\* Result values: Ok(true), Ok(false) and Err(_) of a Result<bool, &str>
Ok(b) == IF b THEN "Ok(true)" ELSE "Ok(false)"

Err == "Err"

\* the loop with the conversion and range checks left out: an index that is
\* out of range is skipped
RECURSIVE pi_inv_loop_unchecked(_, _, _)
pi_inv_loop_unchecked(permutation, n, upto) ==
    IF upto = 0 THEN [ok |-> TRUE, map |-> [i \in 1 .. n |-> 0]]
    ELSE LET before  == pi_inv_loop_unchecked(permutation, n, upto - 1)
             new_idx == permutation[upto]
         IN  [ok |-> TRUE,
              map |-> [i \in 1 .. n |-> IF i = new_idx + 1 THEN upto - 1 ELSE before.map[i]]]

\* a loop that copies the permutation into the table instead of inverting it
pi_inv_loop_copy(permutation, n, upto) ==
    IF \E j \in 1 .. upto :
          ~try_into_usize(permutation[j]).ok \/ permutation[j] >= n
    THEN [ok |-> FALSE, map |-> [i \in 1 .. n |-> 0]]
    ELSE [ok |-> TRUE, map |-> [i \in 1 .. n |-> IF i <= upto THEN permutation[i] ELSE 0]]

\* the table written by `pi_inv_map[new_idx] = j` for j = 0 .. upto-1, over a
\* table that starts as all zeros; ok is FALSE once an index is out of range
RECURSIVE pi_inv_loop(_, _, _)
pi_inv_loop(permutation, n, upto) ==
    IF upto = 0 THEN [ok |-> TRUE, map |-> [i \in 1 .. n |-> 0]]
    ELSE LET before  == pi_inv_loop(permutation, n, upto - 1)
             new_idx == try_into_usize(permutation[upto])
         IN  IF ~before.ok \/ ~new_idx.ok \/ new_idx.value >= n
             THEN [ok |-> FALSE, map |-> before.map]
             ELSE [ok |-> TRUE,
                   map |-> [before.map EXCEPT ![new_idx.value + 1] = upto - 1]]

shuffle_transcript(instance, commitments) ==
    <<write_bytes(instance.g), write_bytes(instance.h),
      write_bytes(instance.g_P), write_bytes(instance.h_P),
      Product2_serialize(instance.initial_ciphertexts),
      Product2_serialize(instance.final_ciphertexts),
      Product_serialize(instance.public_keys),
      Product_serialize(instance.perm_commitments),
      Product2_serialize(commitments.A_i),
      Product2_serialize(commitments.B_i),
      Product_serialize(commitments.S),
      Product_serialize(commitments.T)>>

\* the commitments A_i, B_i, S, T of prove, from the scalars rnd drawn from the rng
shuffle_commitments(instance, pi_inv_map, rnd) ==
    LET n == Len(instance.public_keys)
        initial_ciphertexts_permuted_by_pi_inv ==
            [i \in 1 .. n |-> instance.initial_ciphertexts[pi_inv_map[i] + 1]]
        a_i(i) ==
            LET com_a_lhs == add_element(instance.public_keys[i],
                                         scalar_mul(instance.g, rnd.kappa[i]))
                com_a_rhs == scalar_mul(instance.h, rnd.omega_A)
            IN  ciphertext_mul(ciphertext_inv(initial_ciphertexts_permuted_by_pi_inv[i]),
                               Ciphertext_new(com_a_lhs, com_a_rhs))
        b_i(i) ==
            LET com_b_lhs == add_element(instance.public_keys[i],
                                         scalar_mul(instance.g, rnd.rho[i]))
                com_b_rhs == add_element(instance.perm_commitments[i],
                                         scalar_mul(instance.h, rnd.omega_B))
            IN  ciphertext_mul(ciphertext_inv(instance.final_ciphertexts[i]),
                               Ciphertext_new(com_b_lhs, com_b_rhs))
        prod_c_j       == fold_ciphertext_mul(instance.initial_ciphertexts)
        prod_pk_j      == fold_add_element(instance.public_keys)
        sum_tau_j      == fold_scalar_add(rnd.tau)
        com_s          == Ciphertext_new(
                              add_element(prod_pk_j, scalar_mul(instance.g, rnd.sigma)),
                              scalar_mul(instance.h, sum_tau_j))
        s_val          == ciphertext_mul(ciphertext_inv(prod_c_j), com_s)
        prod_c_prime_j == fold_ciphertext_mul(instance.final_ciphertexts)
        prod_p_j       == fold_add_element(instance.perm_commitments)
        com_t          == Ciphertext_new(
                              add_element(prod_pk_j, scalar_mul(instance.g, rnd.sigma)),
                              add_element(prod_p_j, scalar_mul(instance.h, sum_tau_j)))
        t_val          == ciphertext_mul(ciphertext_inv(prod_c_prime_j), com_t)
    IN  [A_i |-> [i \in 1 .. n |-> a_i(i)], B_i |-> [i \in 1 .. n |-> b_i(i)],
         S |-> s_val, T |-> t_val]

\* the responses k'_i, r'_i, s', t'_j of prove for the challenge x
shuffle_responses(witness, pi_inv_map, rnd, challenge_x) ==
    LET n == Len(witness.permutation)
        k_prime(i) ==
            scalar_sub(rnd.kappa[i],
                       scalar_mul_s(challenge_x,
                                    witness.rerandomization_factors[pi_inv_map[i] + 1]))
        r_prime(i) ==
            scalar_sub(rnd.rho[i],
                       scalar_mul_s(challenge_x,
                                    witness.perm_commitment_randomness[pi_inv_map[i] + 1]))
        sum_rerand_factors == fold_scalar_add(witness.rerandomization_factors)
        s_prime_val == scalar_sub(rnd.sigma, scalar_mul_s(challenge_x, sum_rerand_factors))
        t_prime(j) ==
            scalar_sub(rnd.tau[j],
                       scalar_mul_s(challenge_x, witness.perm_commitment_randomness[j]))
    IN  [k_prime_vec |-> [i \in 1 .. n |-> k_prime(i)],
         r_prime_vec |-> [i \in 1 .. n |-> r_prime(i)],
         s_prime     |-> s_prime_val,
         t_prime_vec |-> [j \in 1 .. n |-> t_prime(j)]]

\* prove: Err (ok is FALSE) for a witness permutation that does not index
\* [0, n), else Ok(proof)
shuffle_prove(instance, witness, rnd, table, fresh) ==
    LET n      == Len(witness.permutation)
        pi_inv == pi_inv_loop(witness.permutation, n, n)
    IN  IF ~pi_inv.ok THEN [ok |-> FALSE]
        ELSE LET proof_commitments == shuffle_commitments(instance, pi_inv.map, rnd)
                 challenge_x == hash_to_scalar(table,
                                    shuffle_transcript(instance, proof_commitments), fresh)
             IN  [ok          |-> TRUE,
                  commitments |-> proof_commitments,
                  responses   |-> shuffle_responses(witness, pi_inv.map, rnd, challenge_x)]

\* a Ciphertext comparison: lhs.0.iter().zip(rhs.0.iter()).all(|(a,b)| a.equals(b))
ciphertext_equals(lhs, rhs) == lhs[1] = rhs[1] /\ lhs[2] = rhs[2]

\* first verification loop, iteration i
shuffle_check1(instance, pf, challenge_x, i) ==
    LET c_pi_inv_i      == instance.initial_ciphertexts_perm_by_pi_inv.value[i]
        c_prime_i_pow_x == ciphertext_exp(instance.final_ciphertexts[i], challenge_x)
        lhs1_part       == ciphertext_mul(pf.commitments.A_i[i], c_pi_inv_i)
        lhs1            == ciphertext_mul(lhs1_part, c_prime_i_pow_x)
        rhs1_ct         == Ciphertext_new(
                               add_element(instance.public_keys[i],
                                           scalar_mul(instance.g, pf.responses.k_prime_vec[i])),
                               scalar_mul(instance.h, pf.responses.r_prime_vec[i]))
    IN  ciphertext_equals(lhs1, rhs1_ct)

\* second verification loop, iteration i
shuffle_check2(instance, pf, challenge_x, i) ==
    LET p_i_pow_x == scalar_mul(instance.perm_commitments[i], challenge_x)
        lhs2_ciph == ciphertext_mul(pf.commitments.B_i[i], instance.final_ciphertexts[i])
        lhs2      == Ciphertext_new(add_element(lhs2_ciph[1], p_i_pow_x), lhs2_ciph[2])
        rhs2_ct   == Ciphertext_new(
                         add_element(instance.public_keys[i],
                                     scalar_mul(instance.g, pf.responses.r_prime_vec[i])),
                         add_element(instance.perm_commitments_perm_by_pi_inv.value[i],
                                     scalar_mul(instance.h, pf.responses.t_prime_vec[i])))
    IN  ciphertext_equals(lhs2, rhs2_ct)

\* third verification equation
shuffle_check3(instance, pf, challenge_x) ==
    LET prod_c_j             == fold_ciphertext_mul(instance.initial_ciphertexts)
        prod_c_prime_j       == fold_ciphertext_mul(instance.final_ciphertexts)
        prod_c_prime_j_pow_x == ciphertext_exp(prod_c_prime_j, challenge_x)
        lhs3_part            == ciphertext_mul(pf.commitments.S, prod_c_j)
        lhs3                 == ciphertext_mul(lhs3_part, prod_c_prime_j_pow_x)
        prod_pk_j            == fold_add_element(instance.public_keys)
        sum_t_prime_j        == fold_scalar_add(pf.responses.t_prime_vec)
        rhs3_ct              == Ciphertext_new(
                                    add_element(prod_pk_j,
                                                scalar_mul(instance.g, pf.responses.s_prime)),
                                    scalar_mul(instance.h, sum_t_prime_j))
    IN  ciphertext_equals(lhs3, rhs3_ct)

\* fourth verification equation
shuffle_check4(instance, pf, challenge_x) ==
    LET prod_c_prime_j == fold_ciphertext_mul(instance.final_ciphertexts)
        prod_pk_j      == fold_add_element(instance.public_keys)
        sum_t_prime_j  == fold_scalar_add(pf.responses.t_prime_vec)
        prod_p_j       == fold_add_element(instance.perm_commitments)
        prod_p_j_pow_x == scalar_mul(prod_p_j, challenge_x)
        lhs4_part      == ciphertext_mul(pf.commitments.T, prod_c_prime_j)
        lhs4           == Ciphertext_new(add_element(lhs4_part[1], prod_p_j_pow_x), lhs4_part[2])
        sum_r_prime_j  == fold_scalar_add(pf.responses.r_prime_vec)
        rhs4_ct        == Ciphertext_new(
                              add_element(prod_pk_j, scalar_mul(instance.g, sum_r_prime_j)),
                              add_element(instance.prod_perm_commitments_perm_by_pi_inv.value,
                                          scalar_mul(instance.h, sum_t_prime_j)))
    IN  ciphertext_equals(lhs4, rhs4_ct)

\* verify: Err when an Option field of the instance is None, else Ok(false) at
\* the first equation that fails and Ok(true) when none does
shuffle_verify(instance, pf, table, fresh) ==
    LET n == Len(instance.public_keys)
        challenge_x == hash_to_scalar(table, shuffle_transcript(instance, pf.commitments), fresh)
    IN  IF \/ ~instance.initial_ciphertexts_perm_by_pi_inv.is_some
           \/ ~instance.perm_commitments_perm_by_pi_inv.is_some
           \/ ~instance.prod_perm_commitments_perm_by_pi_inv.is_some
        THEN Err
        ELSE Ok(/\ \A i \in 1 .. n : shuffle_check1(instance, pf, challenge_x, i)
                /\ \A i \in 1 .. n : shuffle_check2(instance, pf, challenge_x, i)
                /\ shuffle_check3(instance, pf, challenge_x)
                /\ shuffle_check4(instance, pf, challenge_x))

\* tests::elgamal_encrypt: (g^r, pk^r * g^m)
elgamal_encrypt(g, pk, m_scalar, r) ==
    LET c1        == scalar_mul(g, r)
        m_element == scalar_mul(g, m_scalar)
        c2        == add_element(scalar_mul(pk, r), m_element)
    IN  Ciphertext_new(c1, c2)

\* tests::create_dummy_instance_and_witness for the permutation perm, the
\* generators bases = <<h, g_P, h_P>> and the scalars draws taken from the rng
create_dummy_instance_and_witness(perm, bases, draws) ==
    LET n_usize == Len(perm)
        g == generator
        public_keys == [i \in 1 .. n_usize |-> scalar_mul(g, draws.sk_vec[i])]
        initial_ciphertexts ==
            [i \in 1 .. n_usize |->
                elgamal_encrypt(g, public_keys[i], draws.messages_as_scalars[i],
                                draws.initial_rand_factors[i])]
        permutation_witness == [i \in 1 .. n_usize |-> from_u64(perm[i])]
        perm_commitments ==
            [j \in 1 .. n_usize |->
                compute_perm_commitment(from_u64(perm[j]),
                                        draws.perm_commitment_randomness[j],
                                        bases[2], bases[3])]
        pi_inv_map_usize == pi_inv_loop(perm, n_usize, n_usize).map
        final_ciphertexts ==
            [i_new_idx \in 1 .. n_usize |->
                rerandomize_ciphertext(initial_ciphertexts[pi_inv_map_usize[i_new_idx] + 1],
                                       public_keys[i_new_idx],
                                       draws.rerandomization_factors[i_new_idx], g)]
        perm_commitments_perm_by_pi_inv ==
            [i_new_idx \in 1 .. n_usize |-> perm_commitments[pi_inv_map_usize[i_new_idx] + 1]]
    IN  [instance |->
            [initial_ciphertexts |-> initial_ciphertexts,
             final_ciphertexts   |-> final_ciphertexts,
             public_keys         |-> public_keys,
             perm_commitments    |-> perm_commitments,
             g |-> g, h |-> bases[1], g_P |-> bases[2], h_P |-> bases[3],
             initial_ciphertexts_perm_by_pi_inv |->
                Some([i_new_idx \in 1 .. n_usize |->
                         initial_ciphertexts[pi_inv_map_usize[i_new_idx] + 1]]),
             perm_commitments_perm_by_pi_inv |-> Some(perm_commitments_perm_by_pi_inv),
             prod_perm_commitments_perm_by_pi_inv |->
                Some(fold_add_element(perm_commitments_perm_by_pi_inv))],
         witness |->
            [permutation                |-> permutation_witness,
             rerandomization_factors    |-> draws.rerandomization_factors,
             perm_commitment_randomness |-> draws.perm_commitment_randomness]]

(***************************************************************************)
(* Shuffle runs.  The rng's draws are taken from small sets: a scalar from *)
(* DrawScalars, a vector of n scalars from DrawVectors(n); the generators  *)
(* h, g_P, h_P from Bases; the permutation from all permutations of the    *)
(* n positions.                                                            *)
(***************************************************************************)
MaxN == 3

MaxTamperN == 1

MaxDraw == 1

DrawScalars == 0 .. MaxDraw

DrawVectors(n) == {[i \in 1 .. n |-> (a * i) % Order] : a \in DrawScalars}

Bases == {generator, negate_element(generator)}

IndexPermutations(n) ==
    {perm \in [1 .. n -> 0 .. (n - 1)] : \A i, j \in 1 .. n : perm[i] = perm[j] => i = j}

\* the instances and witnesses create_dummy_instance_and_witness builds for size n
DummyInstances(n) ==
    {create_dummy_instance_and_witness(perm, <<h, generator, h_P>>,
        [sk_vec |-> sk, messages_as_scalars |-> m, initial_rand_factors |-> r,
         rerandomization_factors |-> rr, perm_commitment_randomness |-> k]) :
        perm \in IndexPermutations(n), h \in {generator}, h_P \in Bases,
        sk \in DrawVectors(n), m \in DrawVectors(n), r \in DrawVectors(n),
        rr \in DrawVectors(n), k \in DrawVectors(n)}

ShuffleStart(sizes) ==
    /\ call = "new"
    /\ \E n \in sizes : input \in DummyInstances(n)
    /\ issued = None
    /\ proof = None
    /\ oracle = EmptyOracle
    /\ verdict = None

ShuffleInit == ShuffleStart(1 .. MaxN)

ShuffleTamperInit == ShuffleStart(1 .. MaxTamperN)

ShuffleSize == Len(input.witness.permutation)

ShuffleProve ==
    /\ call = "new"
    /\ \E kappa \in DrawVectors(ShuffleSize), omega_A \in DrawScalars,
          rho \in DrawVectors(ShuffleSize), omega_B \in DrawScalars,
          sigma \in DrawScalars, tau \in DrawVectors(ShuffleSize),
          fresh \in DrawScalars :
          LET rnd == [kappa |-> kappa, omega_A |-> omega_A, rho |-> rho,
                      omega_B |-> omega_B, sigma |-> sigma, tau |-> tau]
              pf  == shuffle_prove(input.instance, input.witness, rnd, oracle, fresh)
          IN  /\ issued' = pf
              /\ proof' = pf
              /\ oracle' = IF ~pf.ok THEN oracle
                           ELSE record_hash(oracle,
                                    shuffle_transcript(input.instance, pf.commitments), fresh)
    /\ call' = "prove"
    /\ UNCHANGED <<input, verdict>>

\* the caller replaces one response scalar of the proof by a different scalar
ShuffleTamper ==
    /\ call = "prove"
    /\ proof.ok
    /\ \E field \in {"k_prime_vec", "r_prime_vec", "t_prime_vec"}, i \in 1 .. ShuffleSize :
       \E other \in Scalars \ {proof.responses[field][i]} :
          proof' = [proof EXCEPT !.responses[field][i] = other]
    /\ call' = "tamper"
    /\ UNCHANGED <<input, issued, oracle, verdict>>

ShuffleTamperSPrime ==
    /\ call = "prove"
    /\ proof.ok
    /\ \E other \in Scalars \ {proof.responses.s_prime} :
          proof' = [proof EXCEPT !.responses.s_prime = other]
    /\ call' = "tamper"
    /\ UNCHANGED <<input, issued, oracle, verdict>>

ShuffleVerify ==
    /\ call \in {"prove", "tamper"}
    /\ proof.ok
    /\ \E fresh \in Digests(oracle, shuffle_transcript(input.instance, proof.commitments)) :
          /\ verdict' = shuffle_verify(input.instance, proof, oracle, fresh)
          /\ oracle' = record_hash(oracle,
                           shuffle_transcript(input.instance, proof.commitments), fresh)
    /\ call' = "verify"
    /\ UNCHANGED <<input, issued, proof>>

ShuffleNext == ShuffleProve \/ ShuffleVerify

SpecShuffle == ShuffleInit /\ [][ShuffleNext]_vars

ShuffleTamperNext == ShuffleProve \/ ShuffleTamper \/ ShuffleTamperSPrime \/ ShuffleVerify

SpecShuffleTamper == ShuffleTamperInit /\ [][ShuffleTamperNext]_vars

\* C1: shuffle completeness: for an instance and witness derived honestly from
\* a permutation, verify(instance, prove(instance, witness)) is Ok(true).
C1_ShuffleCompleteness ==
    (call = "verify" /\ proof = issued) => verdict = Ok(TRUE)

\* C10: shuffle tamper detection: replacing any single response scalar of an
\* honest proof by a different scalar makes verify return Ok(false).
C10_ShuffleTamperDetected ==
    (call = "verify" /\ proof # issued) => verdict = Ok(FALSE)

(***************************************************************************)
(* Shuffle runs over arbitrary witnesses: the instance is one the test     *)
(* helper builds for the identity permutation, the witness permutation is  *)
(* any vector of n scalars, a permutation of the positions or not.         *)
(***************************************************************************)
IdentityPermutation(n) == [i \in 1 .. n |-> i - 1]

ArbitraryWitnesses(n) ==
    {[instance |-> dummy.instance,
      witness  |-> [dummy.witness EXCEPT !.permutation = permutation]] :
        dummy \in {create_dummy_instance_and_witness(IdentityPermutation(n),
                       <<generator, generator, h_P>>,
                       [sk_vec |-> sk, messages_as_scalars |-> sk,
                        initial_rand_factors |-> sk,
                        rerandomization_factors |-> rr,
                        perm_commitment_randomness |-> rr]) :
                    h_P \in Bases, sk \in DrawVectors(n), rr \in DrawVectors(n)},
        permutation \in [1 .. n -> Scalars]}

ShuffleWitnessInit ==
    /\ call = "new"
    /\ \E n \in 1 .. MaxN : input \in ArbitraryWitnesses(n)
    /\ issued = None
    /\ proof = None
    /\ oracle = EmptyOracle
    /\ verdict = None

ShuffleWitnessNext == ShuffleProve

SpecShuffleWitness == ShuffleWitnessInit /\ [][ShuffleWitnessNext]_vars

\* some entry of the witness permutation does not convert to a usize or
\* converts to an index >= N
BadPermutationEntry ==
    \E j \in 1 .. ShuffleSize :
        \/ input.witness.permutation[j] > UsizeMax
        \/ input.witness.permutation[j] >= ShuffleSize

\* C11: prove returns Err, and no proof, whenever some entry of
\* witness.permutation does not convert to a usize or converts to an index
\* >= N; it never returns Ok(proof) for such a witness.
C11_BadWitnessAborts ==
    (call = "prove" /\ BadPermutationEntry) => (~proof.ok /\ DOMAIN proof = {"ok"})

C11_Witness ==
    /\ call = "prove"
    /\ ShuffleSize = MaxN
    /\ input.witness.permutation[1] = 0
    /\ input.witness.permutation[ShuffleSize] = ShuffleSize
    /\ ~proof.ok

(***************************************************************************)
(* Shuffle runs over instances whose placeholder fields may be absent:     *)
(* each of the three Option fields is Some(..) as the test helper sets it  *)
(* or None.                                                                *)
(***************************************************************************)
OptionalInstances(n) ==
    {[instance |-> [dummy.instance EXCEPT
                       !.initial_ciphertexts_perm_by_pi_inv =
                           IF keep[1] THEN @ ELSE Option_None,
                       !.perm_commitments_perm_by_pi_inv =
                           IF keep[2] THEN @ ELSE Option_None,
                       !.prod_perm_commitments_perm_by_pi_inv =
                           IF keep[3] THEN @ ELSE Option_None],
      witness  |-> dummy.witness] :
        dummy \in DummyInstances(n), keep \in [1 .. 3 -> BOOLEAN]}

ShuffleOptionInit ==
    /\ call = "new"
    /\ \E n \in 1 .. MaxTamperN : input \in OptionalInstances(n)
    /\ issued = None
    /\ proof = None
    /\ oracle = EmptyOracle
    /\ verdict = None

ShuffleOptionNext == ShuffleProve \/ ShuffleVerify

SpecShuffleOption == ShuffleOptionInit /\ [][ShuffleOptionNext]_vars

\* C12: verify is a total boolean predicate: for every instance, whether or
\* not its optional fields are present, and every proof of the same size it
\* returns Ok(true) or Ok(false) and never Err.
C12_VerifyTotal ==
    call = "verify" => verdict \in {Ok(TRUE), Ok(FALSE)}

(***************************************************************************)
(* The statement as the verifier receives it.  A reader of the instance    *)
(* matches initial_ciphertexts_perm_by_pi_inv, which verify reads, position*)
(* by position against initial_ciphertexts.                                *)
(***************************************************************************)
\* for each old position j, the 0-based new position whose entry of
\* initial_ciphertexts_perm_by_pi_inv is initial_ciphertexts[j]
match_positions(instance) ==
    LET n == Len(instance.initial_ciphertexts)
    IN  [j \in 1 .. n |->
            (CHOOSE i \in 1 .. n :
                instance.initial_ciphertexts_perm_by_pi_inv.value[i] =
                    instance.initial_ciphertexts[j]) - 1]

ShuffleMatch ==
    /\ call = "new"
    /\ verdict' = match_positions(input.instance)
    /\ call' = "match"
    /\ UNCHANGED <<input, issued, proof, oracle>>

ShuffleStatementNext == ShuffleMatch

SpecShuffleStatement == ShuffleInit /\ [][ShuffleStatementNext]_vars

PairwiseDistinct(items) ==
    \A i, j \in 1 .. Len(items) : items[i] = items[j] => i = j

\* C13: the statement does not reveal the permutation: whenever the initial
\* ciphertexts are pairwise distinct, some other honest derivation gives the
\* verifier the same instance from a different permutation, so no function
\* of the instance recovers the permutation.
C13_PermutationHidden ==
    (call = "match" /\ ShuffleSize > 1 /\ PairwiseDistinct(input.instance.initial_ciphertexts))
        => \E other \in DummyInstances(ShuffleSize) :
              /\ other.instance = input.instance
              /\ other.witness.permutation # input.witness.permutation

(***************************************************************************)
(* What a bit proof shows of b.  The responses a proof for the bit b can   *)
(* carry, over every statement the test builds for b, every choice of the  *)
(* prover's scalars r, s, t and every challenge.                           *)
(***************************************************************************)
\* the statement of test_bit_zkp_prove for the scalar b, key skey and the
\* randomness r, s
test_bit_statement(b, skey, r, s) ==
    LET y       == scalar_mul(generator, skey)
        message == scalar_mul(generator, b)
        gr      == scalar_mul(generator, r)
        hr      == scalar_mul(y, r)
        mhr     == add_element(hr, message)
        c       == <<gr, mhr>>
        big_g   == <<generator, y>>
        c_pow_b == Product_scalar_mul(c, Product_uniform(b, 2))
        g_pow_s == Product_scalar_mul(big_g, Product_uniform(s, 2))
        c_prime == Product_add_element(c_pow_b, g_pow_s)
    IN  [bit |-> b, r_real |-> r, s_real |-> s, y |-> y,
         ciphertext |-> c, c_prime |-> c_prime]

BitResponses(b) ==
    {bit_prove(st.bit, st.r_real, st.s_real, st.ciphertext, st.c_prime, st.y,
               r, s, t, EmptyOracle, challenge).D :
        st \in {test_bit_statement(b, skey, r_real, s_real) :
                   skey \in SampleScalars, r_real \in SampleScalars,
                   s_real \in SampleScalars},
        r \in Scalars, s \in Scalars, t \in Scalars, challenge \in Scalars}

BitResponsesZero == BitResponses(scalar_zero)

BitResponsesOne == BitResponses(scalar_one)

\* C14: the bit proof does not reveal b: the response vector D of a proof
\* for b = 0 is also the response vector of some proof for b = 1, and the
\* other way round, over all choices of the prover's random scalars.
C14_ResponseHidesBit ==
    /\ (call = "prove" /\ input.bit = scalar_zero) => proof.D \in BitResponsesOne
    /\ (call = "prove" /\ input.bit = scalar_one) => proof.D \in BitResponsesZero

(***************************************************************************)
(* The statement covered by the challenge.  After prove, the caller        *)
(* changes one group element in one instance field that verify reads.      *)
(***************************************************************************)
\* the element e replaced by a different element
other_element(e) == add_element(e, generator)

\* the instances that differ from instance in one element of one field
\* that verify reads
AlteredInstances(instance) ==
    LET n == Len(instance.public_keys)
    IN  {[instance EXCEPT !.g = other_element(@)],
         [instance EXCEPT !.h = other_element(@)],
         [instance EXCEPT !.prod_perm_commitments_perm_by_pi_inv.value = other_element(@)]}
        \cup {[instance EXCEPT !.public_keys[i] = other_element(@)] : i \in 1 .. n}
        \cup {[instance EXCEPT !.perm_commitments[i] = other_element(@)] : i \in 1 .. n}
        \cup {[instance EXCEPT !.perm_commitments_perm_by_pi_inv.value[i] = other_element(@)] :
                 i \in 1 .. n}
        \cup {[instance EXCEPT !.initial_ciphertexts[i][c] = other_element(@)] :
                 i \in 1 .. n, c \in 1 .. 2}
        \cup {[instance EXCEPT !.final_ciphertexts[i][c] = other_element(@)] :
                 i \in 1 .. n, c \in 1 .. 2}
        \cup {[instance EXCEPT !.initial_ciphertexts_perm_by_pi_inv.value[i][c] =
                                   other_element(@)] : i \in 1 .. n, c \in 1 .. 2}

ShuffleAlter ==
    /\ call = "prove"
    /\ proof.ok
    /\ \E altered \in AlteredInstances(input.instance) :
          input' = [input EXCEPT !.instance = altered]
    /\ call' = "alter"
    /\ UNCHANGED <<issued, proof, oracle, verdict>>

ShuffleAlterNext == ShuffleProve \/ ShuffleAlter

SpecShuffleAlter == ShuffleTamperInit /\ [][ShuffleAlterNext]_vars

\* C15: the challenge covers the entire statement: after any one instance
\* field read by verify is changed, the byte string verify hashes for the
\* instance and the proof's commitments is not the byte string prove hashed.
C15_ChallengeCoversStatement ==
    call = "alter" =>
        update_hasher_with_slices(shuffle_transcript(input.instance, proof.commitments))
            \notin DOMAIN oracle

(***************************************************************************)
(* Fixed-size serialization of the const-generic API: read_bytes and       *)
(* write_bytes (src/src/arithmetic.rs, src/src/serialization.rs), and the  *)
(* key pair built on it (src/src/elgamal.rs).                              *)
(***************************************************************************)
\* the number of bytes of an encoded scalar or element
SIZE == Len(write_bytes(identity))

\* Scalar::from_canonical_bytes and CompressedRistretto::decompress: the value
\* a little-endian byte string denotes, if it is the canonical encoding of one
from_canonical_bytes(bytes) ==
    LET value == bytes[1] + ByteBase * bytes[2]
    IN  IF value < Order THEN Some(value) ELSE Option_None

\* the outcome of a call that returns Self: the value, or a panic
Returned(value) == [panicked |-> FALSE, value |-> value]

Panicked == [panicked |-> TRUE]

\* Exponent::read_bytes and Element::read_bytes unwrap the parsed option
read_bytes(bytes) ==
    LET parsed == from_canonical_bytes(bytes)
    IN  IF parsed.is_some THEN Returned(parsed.value) ELSE Panicked

\* the pair's parser: the first T1::SIZE bytes are the first field, the rest
\* the second
Pair_read_bytes(bytes) ==
    LET bytes_t1   == SubSeq(bytes, 1, SIZE)
        rest       == SubSeq(bytes, SIZE + 1, Len(bytes))
        bytes_t2   == SubSeq(rest, 1, SIZE)
        field1_val == read_bytes(bytes_t1)
        field2_val == read_bytes(bytes_t2)
    IN  IF field1_val.panicked \/ field2_val.panicked THEN Panicked
        ELSE Returned([fst |-> field1_val.value, snd |-> field2_val.value])

Pair_write_bytes(pair) == write_bytes(pair.fst) \o write_bytes(pair.snd)

KeyPair_read_bytes(bytes) ==
    LET pair == Pair_read_bytes(bytes)
    IN  IF pair.panicked THEN Panicked
        ELSE Returned([pkey |-> pair.value.fst, skey |-> pair.value.snd])

KeyPair_write_bytes(key) ==
    Pair_write_bytes([fst |-> key.pkey, snd |-> key.skey])

\* the byte values the byte strings handed to a parser are drawn from
SampleBytes == (0 .. Order) \cup {ByteBase - 1}

ByteStrings(len) == [1 .. len -> SampleBytes]

\* test_keypair: write the key pair ...
KeyPairWrite ==
    /\ call = "keypair"
    /\ proof' = KeyPair_write_bytes(input.key)
    /\ call' = "write"
    /\ UNCHANGED <<input, issued, oracle, verdict>>

\* ... and read it back
KeyPairRead ==
    /\ call = "write"
    /\ verdict' = KeyPair_read_bytes(proof)
    /\ call' = "read"
    /\ UNCHANGED <<input, issued, proof, oracle>>

\* read_bytes is public: a caller may hand it any byte string of the size
KeyPairReadBytes ==
    /\ call = "new"
    /\ \E bytes \in ByteStrings(SIZE + SIZE) :
          /\ proof' = bytes
          /\ verdict' = KeyPair_read_bytes(bytes)
    /\ call' = "read"
    /\ UNCHANGED <<input, issued, oracle>>

KeyPairNext == KeyPairNew \/ KeyPairWrite \/ KeyPairRead \/ KeyPairReadBytes

SpecKeyPair == ElGamalInit /\ [][KeyPairNext]_vars

\* C16: every key pair the public API yields, from KeyPair::new or from
\* read_bytes of any byte string that parses as an element followed by a
\* scalar, has pkey = generator^skey.
C16_KeyPairInvariant ==
    /\ call \in {"keypair", "write"} =>
          input.key.pkey = scalar_mul(generator, input.key.skey)
    /\ (call = "read" /\ ~verdict.panicked) =>
          verdict.value.pkey = scalar_mul(generator, verdict.value.skey)

(***************************************************************************)
(* Batched ElGamal over fixed-length vectors (src/src/elgamal.rs)          *)
(***************************************************************************)
\* the vector length test_eg_product uses
LEN == 3

\* ElementN::encrypt: Product::map calls the single-element encrypt at each
\* position, and each call draws its own nonce from the rng
ElementN_encrypt_shared_nonce(messages, key, nonces) ==
    [i \in DOMAIN messages |-> encrypt(messages[i], key, nonces[1])]

ElementN_encrypt(messages, key, nonces) ==
    [i \in DOMAIN messages |-> encrypt(messages[i], key, nonces[i])]

\* ElGamalN::decrypt: Product::map of the single-ciphertext decrypt
ElGamalN_decrypt(ciphertexts, key) ==
    [i \in DOMAIN ciphertexts |-> decrypt(ciphertexts[i], key)]

ElGamalNInit ==
    /\ call = "new"
    /\ input = [key |-> None, messages |-> None, nonces |-> None]
    /\ issued = None
    /\ proof = None
    /\ oracle = EmptyOracle
    /\ verdict = None

EncryptN ==
    /\ call = "keypair"
    /\ \E messages \in [1 .. LEN -> Elements],
          nonces \in [1 .. LEN -> SampleScalars] :
          /\ input' = [input EXCEPT !.messages = messages, !.nonces = nonces]
          /\ proof' = ElementN_encrypt(messages, input.key, nonces)
    /\ call' = "encrypt"
    /\ UNCHANGED <<issued, oracle, verdict>>

DecryptN ==
    /\ call = "encrypt"
    /\ verdict' = ElGamalN_decrypt(proof, input.key)
    /\ call' = "decrypt"
    /\ UNCHANGED <<input, issued, proof, oracle>>

ElGamalNNext == KeyPairNew \/ EncryptN \/ DecryptN

SpecElGamalN == ElGamalNInit /\ [][ElGamalNNext]_vars

\* C17: batched consistency: decrypting the batched encryption of a vector of
\* LEN messages under the same key pair returns the messages at every
\* position, and position i of the ciphertexts and of the result is the same
\* whatever message, nonce or ciphertext half stands at another position j.
C17_BatchedConsistency ==
    call = "decrypt" =>
       /\ verdict = input.messages
       /\ \A i \in 1 .. LEN : \A j \in (1 .. LEN) \ {i} :
             /\ \A m \in Elements :
                   ElementN_encrypt([input.messages EXCEPT ![j] = m], input.key,
                                    input.nonces)[i] = proof[i]
             /\ \A r \in Scalars :
                   ElementN_encrypt(input.messages, input.key,
                                    [input.nonces EXCEPT ![j] = r])[i] = proof[i]
             /\ \A e \in Elements :
                   /\ ElGamalN_decrypt([proof EXCEPT ![j].gr = e],
                                       input.key)[i] = verdict[i]
                   /\ ElGamalN_decrypt([proof EXCEPT ![j].mhr = e],
                                       input.key)[i] = verdict[i]

C17_Witness ==
    /\ call = "decrypt"
    /\ input.key.skey # scalar_zero
    /\ PairwiseDistinct(input.messages)
    /\ PairwiseDistinct(input.nonces)
    /\ \E i \in 1 .. LEN : proof[i].mhr # input.messages[i]
    /\ PairwiseDistinct(proof)
    /\ verdict = input.messages

(***************************************************************************)
(* Serialization with type-level sizes: Pair<A, B> and Product<T, N>       *)
(* (src/src/serialization_hybrid.rs), over scalars and elements            *)
(* (src/src/groups/ristretto255).  A type is described by a record, a     *)
(* Pair(a, b) is the tuple <<a, b>> and a Product the sequence of items.   *)
(***************************************************************************)
Atom == [kind |-> "atom"]

PairType(A, B) == [kind |-> "pair", fst |-> A, snd |-> B]

ProductType(T, NLen) == [kind |-> "product", item |-> T, len |-> NLen]

\* Size::SizeType: Sum for a pair, Prod for a product
RECURSIVE USIZE(_)
USIZE(T) ==
    CASE T.kind = "atom"    -> SIZE
      [] T.kind = "pair"    -> USIZE(T.fst) + USIZE(T.snd)
      [] T.kind = "product" -> USIZE(T.item) * T.len

\* Result<Self, Error> of deserialize
Result_Ok(value) == [is_ok |-> TRUE, value |-> value]

DeserializationError == [is_ok |-> FALSE]

\* Array::split: a view of the first n bytes and a view of the rest
split_swapped(buffer, n) ==
    <<SubSeq(buffer, Len(buffer) - n + 1, Len(buffer)),
      SubSeq(buffer, 1, Len(buffer) - n)>>

split(buffer, n) ==
    <<SubSeq(buffer, 1, n), SubSeq(buffer, n + 1, Len(buffer))>>

\* serialize of a scalar (to_bytes) or an element (compress().to_bytes()),
\* of a pair (concat) and of a product (item i copied to [start, end))
RECURSIVE serialize(_, _)
serialize(T, x) ==
    CASE T.kind = "atom"    -> <<x % ByteBase, x \div ByteBase>>
      [] T.kind = "pair"    ->
            LET arr1 == serialize(T.fst, x[1])
                arr2 == serialize(T.snd, x[2])
            IN  arr1 \o arr2
      [] T.kind = "product" ->
            [k \in 1 .. USIZE(T) |->
                LET i          == (k - 1) \div USIZE(T.item)
                    item_bytes == serialize(T.item, x[i + 1])
                    start      == i * USIZE(T.item)
                IN  item_bytes[k - start]]

\* deserialize of a scalar or element (canonical bytes only), of a pair (both
\* halves, the first error returned) and of a product (try_from_fn: every
\* item, the first error returned)
RECURSIVE deserialize(_, _)
deserialize(T, buffer) ==
    CASE T.kind = "atom"    ->
            LET parsed == from_canonical_bytes(buffer)
            IN  IF parsed.is_some THEN Result_Ok(parsed.value)
                ELSE DeserializationError
      [] T.kind = "pair"    ->
            LET views == split(buffer, USIZE(T.fst))
                val_a == deserialize(T.fst, views[1])
                val_b == deserialize(T.snd, views[2])
            IN  IF ~val_a.is_ok THEN DeserializationError
                ELSE IF ~val_b.is_ok THEN DeserializationError
                ELSE Result_Ok(<<val_a.value, val_b.value>>)
      [] T.kind = "product" ->
            LET item(i) ==
                    LET start == i * USIZE(T.item)
                        end   == start + USIZE(T.item)
                    IN  deserialize(T.item, SubSeq(buffer, start + 1, end))
            IN  IF \E i \in 0 .. T.len - 1 : ~item(i).is_ok
                THEN DeserializationError
                ELSE Result_Ok([i \in 1 .. T.len |-> item(i - 1).value])

\* the values of a type
RECURSIVE Values(_)
Values(T) ==
    CASE T.kind = "atom"    -> Elements
      [] T.kind = "pair"    -> Values(T.fst) \X Values(T.snd)
      [] T.kind = "product" -> [1 .. T.len -> Values(T.item)]

\* the composite types of the crate: a pair of elements (a ciphertext, the
\* pair of test_pair_element_serialization), commitments with a response, a
\* vector of LEN elements (test_product_element_serialization), a vector of
\* ciphertexts, and a pair whose second half is the longer one
CompositeTypes ==
    { PairType(Atom, Atom),
      PairType(ProductType(Atom, 2), Atom),
      ProductType(Atom, LEN),
      ProductType(PairType(Atom, Atom), 2),
      PairType(Atom, ProductType(Atom, 2)) }

\* encodings handed to deserialize: canonical ones and two that are not
AtomEncodings ==
    {serialize(Atom, e) : e \in SampleScalars}
        \cup {serialize(Atom, Order), serialize(Atom, ByteBase)}

RECURSIVE Buffers(_)
Buffers(T) ==
    CASE T.kind = "atom"    -> AtomEncodings
      [] T.kind = "pair"    ->
            {a \o b : a \in Buffers(T.fst), b \in Buffers(T.snd)}
      [] T.kind = "product" ->
            IF T.len = 0 THEN {<<>>}
            ELSE {a \o b : a \in Buffers(T.item),
                           b \in Buffers(ProductType(T.item, T.len - 1))}

SerializationInit ==
    /\ call = "new"
    /\ input = [type |-> None, value |-> None]
    /\ issued = None
    /\ proof = None
    /\ oracle = EmptyOracle
    /\ verdict = None

Construct ==
    /\ call = "new"
    /\ \E T \in CompositeTypes : \E x \in Values(T) :
          input' = [type |-> T, value |-> x]
    /\ call' = "value"
    /\ UNCHANGED <<issued, proof, oracle, verdict>>

Serialize ==
    /\ call = "value"
    /\ proof' = serialize(input.type, input.value)
    /\ call' = "serialize"
    /\ UNCHANGED <<input, issued, oracle, verdict>>

Deserialize ==
    /\ call = "serialize"
    /\ verdict' = deserialize(input.type, proof)
    /\ call' = "deserialize"
    /\ UNCHANGED <<input, issued, proof, oracle>>

\* deserialize is public: a caller may hand it any buffer of the type's size
DeserializeBuffer ==
    /\ call = "new"
    /\ \E T \in CompositeTypes : \E buffer \in Buffers(T) :
          /\ input' = [type |-> T, value |-> None]
          /\ proof' = buffer
          /\ verdict' = deserialize(T, buffer)
    /\ call' = "buffer"
    /\ UNCHANGED <<issued, oracle>>

SerializationNext == Construct \/ Serialize \/ Deserialize \/ DeserializeBuffer

SpecSerialization == SerializationInit /\ [][SerializationNext]_vars

\* C18: composite serialization round trip: for every Pair<A, B> and every
\* Product<T, N> over components that round-trip, deserialize(serialize(x))
\* is Ok(x); the bytes of a pair are A's encoding followed by B's, and item i
\* of a product occupies bytes [i * size(T), (i + 1) * size(T)).
C18_CompositeRoundTrip ==
    call = "deserialize" =>
       /\ verdict = Result_Ok(input.value)
       /\ Len(proof) = USIZE(input.type)
       /\ input.type.kind = "pair" =>
             proof = serialize(input.type.fst, input.value[1])
                        \o serialize(input.type.snd, input.value[2])
       /\ input.type.kind = "product" =>
             \A i \in 0 .. input.type.len - 1 :
                SubSeq(proof, i * USIZE(input.type.item) + 1,
                       (i + 1) * USIZE(input.type.item))
                   = serialize(input.type.item, input.value[i + 1])

C18_Witness ==
    /\ call = "deserialize"
    /\ input.type = PairType(ProductType(Atom, 2), Atom)
    /\ PairwiseDistinct(<<input.value[1][1], input.value[1][2], input.value[2]>>)
    /\ verdict = Result_Ok(input.value)

(***************************************************************************)
(* Serialization of a Chaum-Pedersen proof (src/src/zkp/chaum_pedersen.rs) *)
(***************************************************************************)
\* Product::parse: item i is parsed from bytes [i * SIZE, (i + 1) * SIZE)
Product_read_bytes(bytes, len) ==
    LET chunk(i) == read_bytes(SubSeq(bytes, i * SIZE + 1, (i + 1) * SIZE))
    IN  IF \E i \in 0 .. len - 1 : chunk(i).panicked THEN Panicked
        ELSE Returned([i \in 1 .. len |-> chunk(i - 1).value])

\* CPProof::read_bytes: a Pair of the two commitments and the response
CPProof_read_bytes(bytes) ==
    LET bytes_t1   == SubSeq(bytes, 1, 2 * SIZE)
        bytes_t2   == SubSeq(bytes, 2 * SIZE + 1, Len(bytes))
        field1_val == Product_read_bytes(bytes_t1, 2)
        field2_val == read_bytes(bytes_t2)
    IN  IF field1_val.panicked \/ field2_val.panicked THEN Panicked
        ELSE Returned(CPProof_new(field1_val.value, field2_val.value))

\* CPProof::write_bytes returns an array of zero bytes of the proof's size
CPProof_write_bytes(pf) == [k \in 1 .. (SIZE * 2) + SIZE |-> 0]

CPWrite ==
    /\ call = "prove"
    /\ proof' = CPProof_write_bytes(proof)
    /\ call' = "write"
    /\ UNCHANGED <<input, issued, oracle, verdict>>

CPRead ==
    /\ call = "write"
    /\ LET parsed == CPProof_read_bytes(proof)
       IN  IF parsed.panicked
           THEN /\ proof' = None
                /\ call' = "panic"
           ELSE /\ proof' = parsed.value
                /\ call' = "read"
    /\ UNCHANGED <<input, issued, oracle, verdict>>

CPVerifyParsed ==
    /\ call = "read"
    /\ \E fresh \in Digests(oracle, CPTranscript(proof)) :
          /\ verdict' = cp_verify(input.g1, input.g2, input.public_y1, input.public_y2,
                                  proof, oracle, fresh)
          /\ oracle' = record_hash(oracle, CPTranscript(proof), fresh)
    /\ call' = "verify"
    /\ UNCHANGED <<input, issued, proof>>

CPSerializationNext == CPProve \/ CPWrite \/ CPRead \/ CPVerifyParsed

SpecCPSerialization == CPInit /\ [][CPSerializationNext]_vars

\* C19: Chaum-Pedersen proof serialization round trip: for every proof p that
\* prove returns, CPProof::read_bytes(p.write_bytes()) has the commitments
\* and the response of p, and verify accepts it for the statement p was made
\* for.
C19_CPProofRoundTrip ==
    /\ call # "panic"
    /\ call \in {"read", "verify"} =>
          /\ proof.t = issued.t
          /\ proof.s = issued.s
    /\ (call = "verify" /\ input.public_y2 = scalar_mul(input.g2, input.secret_x))
          => verdict = TRUE

\* C20: deserialization failures are typed results: reading a byte string in
\* which the element or the scalar of a key pair is not canonically encoded
\* hands the caller an error value: the call does not panic and yields no
\* key pair.
C20_TypedDeserializationFailure ==
    (/\ call = "read"
     /\ \/ ~from_canonical_bytes(SubSeq(proof, 1, SIZE)).is_some
        \/ ~from_canonical_bytes(SubSeq(proof, SIZE + 1, SIZE + SIZE)).is_some)
        => /\ ~verdict.panicked
           /\ "value" \notin DOMAIN verdict

(***************************************************************************)
(* Scalar inversion in the two groups (src/src/groups/ristretto255/        *)
(* scalar.rs, src/src/groups/p256/scalar.rs).  The P-256 scalar field is   *)
(* modelled by the next small prime, so the two orders differ.             *)
(***************************************************************************)
P256Order == SmallPrimes[OrderIndex + 1]

GroupOrder(group) == IF group = "P256" THEN P256Order ELSE Order

RECURSIVE pow_mod(_, _, _)
pow_mod(q, s, e) == IF e = 0 THEN 1 % q ELSE (s * pow_mod(q, s, e - 1)) % q

\* Scalar::invert of the underlying libraries computes s^(q-2) in the field
\* of order q; its value for zero is zero
field_invert(q, s) == pow_mod(q, s, q - 2)

\* an invert that skips the comparison with zero
RistrettoScalar_invert_unchecked(s) == Some(field_invert(Order, s))

RistrettoScalar_invert(s) ==
    IF s = 0 THEN Option_None ELSE Some(field_invert(Order, s))

\* p256's invert returns a CtOption that is none for zero
P256Scalar_invert(s) ==
    LET inverted == [is_some |-> s # 0, value |-> field_invert(P256Order, s)]
    IN  IF inverted.is_some THEN Some(inverted.value) ELSE Option_None

\* add, sub and mul of the scalar type of a group
GroupScalar_op(group, op, a, b) ==
    CASE op = "add" -> (a + b) % GroupOrder(group)
      [] op = "sub" -> (a - b + GroupOrder(group)) % GroupOrder(group)
      [] op = "mul" -> (a * b) % GroupOrder(group)

ScalarInit ==
    /\ call = "new"
    /\ \E group \in {"Ristretto255", "P256"} :
          input \in [group : {group}, a : 0 .. (GroupOrder(group) - 1),
                     b : 0 .. (GroupOrder(group) - 1), s : {None}]
    /\ issued = None
    /\ proof = None
    /\ oracle = EmptyOracle
    /\ verdict = None

\* the scalar to invert is the result of an operation of the scalar type
ScalarOp ==
    /\ call = "new"
    /\ \E op \in {"add", "sub", "mul"} :
          input' = [input EXCEPT !.s = GroupScalar_op(input.group, op, input.a, input.b)]
    /\ call' = "scalar"
    /\ UNCHANGED <<issued, proof, oracle, verdict>>

ScalarInvert ==
    /\ call = "scalar"
    /\ verdict' = IF input.group = "P256" THEN P256Scalar_invert(input.s)
                  ELSE RistrettoScalar_invert(input.s)
    /\ call' = "invert"
    /\ UNCHANGED <<input, issued, proof, oracle>>

\* test_p256_scalar_inversion: s.mul(&s_inv)
ScalarMulInverse ==
    /\ call = "invert"
    /\ verdict.is_some
    /\ proof' = GroupScalar_op(input.group, "mul", input.s, verdict.value)
    /\ call' = "product"
    /\ UNCHANGED <<input, issued, oracle, verdict>>

ScalarNext == ScalarOp \/ ScalarInvert \/ ScalarMulInverse

SpecScalar == ScalarInit /\ [][ScalarNext]_vars

\* C21: scalar inversion: in either group invert(s) is None exactly when s is
\* the zero scalar, and for s # 0 the product of s and the returned value is
\* one.
C21_InvertExactlyNonZero ==
    /\ call \in {"invert", "product"} => (~verdict.is_some <=> input.s = 0)
    /\ call = "product" => proof = 1

C21_Witness ==
    /\ call = "product"
    /\ input.group = "P256"
    /\ input.s > 1
    /\ verdict.value # input.s
    /\ proof = 1

(***************************************************************************)
(* hash_to_scalar over lists of byte slices (src/src/utils/hash.rs,        *)
(* src/src/groups/ristretto255/mod.rs)                                     *)
(***************************************************************************)
\* byte slices of up to MaxSample bytes, and lists of up to MaxSample slices
ByteSlices == UNION {[1 .. len -> DrawScalars] : len \in 0 .. MaxSample}

SliceLists == UNION {[1 .. n -> ByteSlices] : n \in 0 .. MaxSample}

HashInit ==
    /\ call = "new"
    /\ input \in [first : SliceLists, second : {None}]
    /\ issued = None
    /\ proof = None
    /\ oracle = EmptyOracle
    /\ verdict = None

\* test_p256_group_hash_to_scalar: hash one list ...
HashFirst ==
    /\ call = "new"
    /\ \E fresh \in Scalars :
          /\ issued' = hash_to_scalar(oracle, input.first, fresh)
          /\ oracle' = record_hash(oracle, input.first, fresh)
    /\ call' = "first"
    /\ UNCHANGED <<input, proof, verdict>>

\* ... and then a list that is the same or another one
HashSecond ==
    /\ call = "first"
    /\ \E second \in SliceLists : \E fresh \in Digests(oracle, second) :
          /\ input' = [input EXCEPT !.second = second]
          /\ verdict' = hash_to_scalar(oracle, second, fresh)
          /\ oracle' = record_hash(oracle, second, fresh)
    /\ call' = "second"
    /\ UNCHANGED <<issued, proof>>

HashNext == HashFirst \/ HashSecond

SpecHash == HashInit /\ [][HashNext]_vars

\* C22: hash_to_scalar is a deterministic map of the ordered list of byte
\* slices: equal lists yield equal scalars, and two lists that differ in
\* content, in order, in the number of slices or in where the slice
\* boundaries fall never feed the same byte string to the digest.
C22_HashSeparatesLists ==
    call = "second" =>
       /\ input.first = input.second => issued = verdict
       /\ input.first # input.second =>
             update_hasher_with_slices(input.first)
                # update_hasher_with_slices(input.second)

(***************************************************************************)
(* P256Group::hash_to_scalar (src/src/groups/p256/mod.rs): the digest is   *)
(* a string of as many bits as the group order has, read as an integer.    *)
(***************************************************************************)
RECURSIVE BitLength(_)
BitLength(q) == IF q = 0 THEN 0 ELSE 1 + BitLength(q \div 2)

\* the integers a digest of BitLength(P256Order) bits can denote
DigestValues == 0 .. (2 ^ BitLength(P256Order) - 1)

\* the digest of the concatenated slices is converted with
\* ScalarPrimitive::from_bytes, which is none for an integer that is not
\* below the order, and the option is unwrapped
P256Group_hash_to_scalar(table, input_slices, fresh) ==
    LET result == hash_to_scalar(table, input_slices, fresh)
        option_scalar_primitive ==
            IF result < P256Order THEN Some(result) ELSE Option_None
    IN  IF option_scalar_primitive.is_some
        THEN Returned(option_scalar_primitive.value)
        ELSE Panicked

P256HashToScalar ==
    /\ call = "new"
    /\ \E fresh \in DigestValues :
          /\ verdict' = P256Group_hash_to_scalar(oracle, input.first, fresh)
          /\ oracle' = record_hash(oracle, input.first, fresh)
    /\ call' = "p256_hash"
    /\ UNCHANGED <<input, issued, proof>>

P256HashNext == P256HashToScalar

SpecP256Hash == HashInit /\ [][P256HashNext]_vars

\* C23: P256Group::hash_to_scalar is total: it returns a scalar for every
\* input, including inputs whose digest read as an integer is greater than
\* or equal to the group order.
C23_P256HashTotal ==
    call = "p256_hash" => (~verdict.panicked /\ verdict.value \in 0 .. (P256Order - 1))

(***************************************************************************)
(* Shuffles of the degenerate sizes N = 0 and N = 1                        *)
(***************************************************************************)
ShuffleDegenerateInit == ShuffleStart(0 .. 1)

SpecShuffleDegenerate == ShuffleDegenerateInit /\ [][ShuffleNext]_vars

\* C24: degenerate shuffle sizes: for N = 0 and for N = 1 the proof that prove
\* returns for an honestly derived instance satisfies both aggregate
\* equations of verify, the one on S and the one on T.
C24_DegenerateAggregatesHold ==
    (call = "verify" /\ proof = issued) =>
        LET challenge_x ==
                oracle[update_hasher_with_slices(
                           shuffle_transcript(input.instance, proof.commitments))]
        IN  /\ shuffle_check3(input.instance, proof, challenge_x)
            /\ shuffle_check4(input.instance, proof, challenge_x)

(***************************************************************************)
(* The table prove builds from the witness permutation                     *)
(***************************************************************************)
\* C25 as stated: for every witness whose permutation entries all convert to
\* indices < N, so that prove does not return Err, the table built at the
\* start of prove is the inverse of the witness permutation,
\* pi_inv_map[pi(j)] = j for every j, and is itself a permutation of [0, N).
C25_Original ==
    (call = "prove" /\ proof.ok) =>
        LET pi_inv_map == pi_inv_loop(input.witness.permutation, ShuffleSize, ShuffleSize).map
        IN  /\ \A j \in 1 .. ShuffleSize :
                  pi_inv_map[input.witness.permutation[j] + 1] = j - 1
            /\ pi_inv_map \in IndexPermutations(ShuffleSize)

\* C25: permutation inversion in prove: for every witness whose permutation
\* entries are pairwise distinct indices < N, the table built at the start of
\* prove is the inverse of the witness permutation, pi_inv_map[pi(j)] = j for
\* every j, and is itself a permutation of [0, N).
C25_TableInvertsPermutation ==
    (call = "prove" /\ proof.ok /\ PairwiseDistinct(input.witness.permutation)) =>
        LET pi_inv_map == pi_inv_loop(input.witness.permutation, ShuffleSize, ShuffleSize).map
        IN  /\ \A j \in 1 .. ShuffleSize :
                  pi_inv_map[input.witness.permutation[j] + 1] = j - 1
            /\ pi_inv_map \in IndexPermutations(ShuffleSize)

C25_Witness ==
    /\ call = "prove"
    /\ proof.ok
    /\ ShuffleSize = MaxN
    /\ PairwiseDistinct(input.witness.permutation)
    /\ pi_inv_loop(input.witness.permutation, ShuffleSize, ShuffleSize).map
          # input.witness.permutation

(***************************************************************************)
(* Acceptance of honest-format Schnorr proofs for arbitrary statements     *)
(***************************************************************************)
\* C26: exact acceptance condition of an honest-format Schnorr proof: for an
\* arbitrary secret x and an arbitrary public element y, not assumed
\* related, verify(y, prove(x, y)) is true if and only if y = g^x or the
\* derived challenge c is the zero scalar.
C26_SchnorrAcceptsExactly ==
    (call = "verify" /\ proof = issued) =>
        (verdict = TRUE <=>
            \/ input.public_y = scalar_mul(generator, input.secret_x)
            \/ SchnorrChallenge = scalar_zero)

C26_Witness ==
    /\ call = "verify"
    /\ proof = issued
    /\ input.public_y # scalar_mul(generator, input.secret_x)
    /\ input.public_y # identity
    /\ SchnorrChallenge = scalar_zero
    /\ proof.t # identity
    /\ verdict = TRUE

(***************************************************************************)
(* The bit-proof map as a homomorphism of scalar 4-vectors                 *)
(***************************************************************************)
\* components of the 4-vectors (b, r, s, t): negations of the small draws,
\* so that sums and products of components wrap around the group order
HomScalars == {scalar_negate(d) : d \in DrawScalars}

HomVectors == [1 .. 4 -> HomScalars]

\* f(b,r,s,t) for a 4-vector
hom_of(big_g, big_h, big_c, x) == hom(big_g, big_h, big_c, x[1], x[2], x[3], x[4])

\* component-wise operation of the product group: f(..) * f(..)
hom_combine(a, b) == [i \in DOMAIN a |-> Product_add_element(a[i], b[i])]

\* f(..)^v
hom_pow(a, v) == [i \in DOMAIN a |-> Product_scalar_mul(a[i], Product_uniform(v, 2))]

HomInit ==
    /\ call = "new"
    /\ \E skey \in SampleScalars, c1 \in SampleScalars, c2 \in SampleScalars :
          input = [big_g |-> <<generator, scalar_mul(generator, skey)>>,
                   big_h |-> <<identity, generator>>,
                   big_c |-> <<scalar_mul(generator, c1), scalar_mul(generator, c2)>>]
    /\ issued = None
    /\ proof = None
    /\ oracle = EmptyOracle
    /\ verdict = None

\* f(b1,r1,s1,t1) * f(b2,r2,s2,t2) against f(b1+b2, r1+r2, s1+s2, t1+t2)
HomAdd ==
    /\ call = "new"
    /\ \E x1 \in HomVectors, x2 \in HomVectors :
          /\ issued' = [x1 |-> x1, x2 |-> x2]
          /\ proof' = [of_sum  |-> hom_of(input.big_g, input.big_h, input.big_c,
                                          Product_add(x1, x2)),
                       product |-> hom_combine(
                                      hom_of(input.big_g, input.big_h, input.big_c, x1),
                                      hom_of(input.big_g, input.big_h, input.big_c, x2))]
    /\ call' = "hom_add"
    /\ UNCHANGED <<input, oracle, verdict>>

\* f(v * X) against f(X)^v, for X the first vector
HomScale ==
    /\ call = "hom_add"
    /\ \E v \in Scalars :
          verdict' = [v         |-> v,
                      of_scaled |-> hom_of(input.big_g, input.big_h, input.big_c,
                                           Product_mul(issued.x1, Product_uniform(v, 4))),
                      power     |-> hom_pow(hom_of(input.big_g, input.big_h, input.big_c,
                                                   issued.x1), v)]
    /\ call' = "hom_scale"
    /\ UNCHANGED <<input, issued, proof, oracle>>

HomNext == HomAdd \/ HomScale

SpecHom == HomInit /\ [][HomNext]_vars

\* C27: for fixed G, H and C the map hom(b, r, s, t) = (H^b G^r, C^b G^s, G^t)
\* is a homomorphism: the image of a sum of two 4-vectors is the
\* component-wise product of their images, and the image of v times a
\* 4-vector is the image raised to v.
C27_HomIsHomomorphism ==
    /\ (call \in {"hom_add", "hom_scale"}) => proof.of_sum = proof.product
    /\ (call = "hom_scale") => verdict.of_scaled = verdict.power

C27_Witness ==
    /\ call = "hom_scale"
    /\ \A i \in 1 .. 4 : issued.x1[i] + issued.x2[i] >= Order
    /\ verdict.v > scalar_one
    /\ input.big_c[1] # identity
    /\ input.big_g[2] # identity
    /\ \A i \in 1 .. 3 : proof.product[i][2] # identity
    /\ verdict.power[2][1] # identity
    /\ proof.of_sum = proof.product
    /\ verdict.of_scaled = verdict.power

(***************************************************************************)
(* Applying a permutation to a vector of ciphertexts                       *)
(***************************************************************************)
\* the Result of apply_permutation_to_ciphertexts: Ok(vector) or Err(_)
Applied_Ok(out) == [ok |-> TRUE, out |-> out]

Applied_Err == [ok |-> FALSE]

\* reads the permutation the other way round: out[j] = ciphertexts[pi(j)]
apply_permutation_gather(ciphertexts, permutation) ==
    LET n_usize == Len(permutation)
    IN  IF \E j \in 1 .. n_usize :
               \/ ~try_into_usize(permutation[j]).ok
               \/ try_into_usize(permutation[j]).value >= n_usize
        THEN Applied_Err
        ELSE Applied_Ok([j \in 1 .. n_usize |-> ciphertexts[permutation[j] + 1]])

\* the loop `for j in 0..n_usize` after `upto` iterations (index j of the
\* code is position j + 1 here)
RECURSIVE apply_permutation_loop(_, _, _)
apply_permutation_loop(ciphertexts, permutation, upto) ==
    IF upto = 0
    THEN Applied_Ok([i \in 1 .. Len(permutation) |-> Ciphertext_new(identity, identity)])
    ELSE LET before  == apply_permutation_loop(ciphertexts, permutation, upto - 1)
             new_idx == try_into_usize(permutation[upto])
         IN  IF ~before.ok THEN before
             ELSE IF ~new_idx.ok THEN Applied_Err
             ELSE IF new_idx.value >= Len(permutation) THEN Applied_Err
             ELSE Applied_Ok([before.out EXCEPT ![new_idx.value + 1] = ciphertexts[upto]])

apply_permutation_to_ciphertexts(ciphertexts, permutation) ==
    apply_permutation_loop(ciphertexts, permutation, Len(permutation))

\* vectors of n ciphertexts with pairwise distinct second components
CiphertextVectors(n) ==
    {[j \in 1 .. n |-> Ciphertext_new(from_u64(a * j), from_u64(j + b))] :
        a \in DrawScalars, b \in DrawScalars}

ApplyInit ==
    /\ call = "new"
    /\ \E n \in 0 .. MaxN :
          input \in [ciphertexts : CiphertextVectors(n), permutation : [1 .. n -> Scalars]]
    /\ issued = None
    /\ proof = None
    /\ oracle = EmptyOracle
    /\ verdict = None

ApplyPermutation ==
    /\ call = "new"
    /\ proof' = apply_permutation_to_ciphertexts(input.ciphertexts, input.permutation)
    /\ call' = "apply_permutation"
    /\ UNCHANGED <<input, issued, oracle, verdict>>

ApplyNext == ApplyPermutation

SpecApply == ApplyInit /\ [][ApplyNext]_vars

\* some entry of the permutation does not convert to a usize or is >= N
BadApplyEntry ==
    \E j \in 1 .. Len(input.permutation) :
        \/ input.permutation[j] > UsizeMax
        \/ input.permutation[j] >= Len(input.permutation)

\* the statement as first written: for all in-range entries, out[pi(j)] is
\* ciphertexts[j] for every j
C28_Original ==
    (call = "apply_permutation" /\ ~BadApplyEntry) =>
        /\ proof.ok
        /\ \A j \in 1 .. Len(input.permutation) :
              proof.out[input.permutation[j] + 1] = input.ciphertexts[j]

\* C28: apply_permutation_to_ciphertexts returns Err when any permutation
\* entry does not convert to usize or is >= N; otherwise it returns Ok(out),
\* and out[pi(j)] == ciphertexts[j] for every j in [0,N) when the entries are
\* pairwise distinct; an index hit by several entries holds the ciphertext
\* of the last of them, an index hit by none holds the identity pair.
C28_ApplyPermutation ==
    (call = "apply_permutation") =>
        /\ BadApplyEntry => ~proof.ok
        /\ ~BadApplyEntry =>
              /\ proof.ok
              /\ PairwiseDistinct(input.permutation) =>
                    \A j \in 1 .. Len(input.permutation) :
                        proof.out[input.permutation[j] + 1] = input.ciphertexts[j]
              /\ \A i \in 1 .. Len(input.permutation) :
                    LET hits == {j \in 1 .. Len(input.permutation) :
                                    input.permutation[j] + 1 = i}
                    IN  proof.out[i] =
                           IF hits = {} THEN Ciphertext_new(identity, identity)
                           ELSE input.ciphertexts[CHOOSE j \in hits : \A k \in hits : k <= j]

C28_Witness ==
    /\ call = "apply_permutation"
    /\ Len(input.permutation) = MaxN
    /\ PairwiseDistinct(input.permutation)
    /\ \A j \in 1 .. MaxN : input.permutation[j] + 1 # j
    /\ proof.ok
    /\ \A j \in 1 .. MaxN : proof.out[input.permutation[j] + 1] = input.ciphertexts[j]
    /\ \A j \in 1 .. MaxN : proof.out[j] # input.ciphertexts[j]

(***************************************************************************)
(* Re-randomization of a ciphertext and its decryption                     *)
(***************************************************************************)
RerandomizeInit ==
    /\ call = "new"
    /\ \E sk \in Scalars, m_scalar \in Scalars, r \in Scalars :
          LET pk == scalar_mul(generator, sk)
          IN  input = [sk |-> sk, pk |-> pk, m |-> scalar_mul(generator, m_scalar), r |-> r,
                       c |-> elgamal_encrypt(generator, pk, m_scalar, r)]
    /\ issued = None
    /\ proof = None
    /\ oracle = EmptyOracle
    /\ verdict = None

Rerandomize ==
    /\ call = "new"
    /\ \E r_prime \in Scalars :
          /\ issued' = r_prime
          /\ proof' = rerandomize_ciphertext(input.c, input.pk, r_prime, generator)
    /\ call' = "rerandomize"
    /\ UNCHANGED <<input, oracle, verdict>>

\* decrypts the ciphertext and its re-randomization under sk
RerandomizeDecrypt ==
    /\ call = "rerandomize"
    /\ verdict' = [original     |-> decrypt(ElGamal_new(input.c[1], input.c[2]),
                                            [skey |-> input.sk, pkey |-> input.pk]),
                   rerandomized |-> decrypt(ElGamal_new(proof[1], proof[2]),
                                            [skey |-> input.sk, pkey |-> input.pk])]
    /\ call' = "decrypt"
    /\ UNCHANGED <<input, issued, proof, oracle>>

RerandomizeNext == Rerandomize \/ RerandomizeDecrypt

SpecRerandomize == RerandomizeInit /\ [][RerandomizeNext]_vars

\* C29: re-randomization preserves the plaintext: for c = (g^r, m + pk^r)
\* under pk = g^sk and every scalar r', rerandomize_ciphertext(c, pk, r', g)
\* is the ciphertext (g^(r+r'), m + pk^(r+r')) and decrypts under sk to the
\* same message m as c.
C29_RerandomizePreservesPlaintext ==
    /\ (call \in {"rerandomize", "decrypt"}) =>
          /\ input.c = Ciphertext_new(scalar_mul(generator, input.r),
                          add_element(input.m, scalar_mul(input.pk, input.r)))
          /\ proof = Ciphertext_new(
                        scalar_mul(generator, scalar_add(input.r, issued)),
                        add_element(input.m,
                                    scalar_mul(input.pk, scalar_add(input.r, issued))))
    /\ (call = "decrypt") =>
          /\ verdict.original = input.m
          /\ verdict.rerandomized = input.m

C29_Witness ==
    /\ call = "decrypt"
    /\ input.r + issued >= Order
    /\ issued # scalar_zero
    /\ input.sk > scalar_one
    /\ input.m # identity
    /\ proof # input.c
    /\ proof[2] # input.c[2]
    /\ verdict.rerandomized = input.m

(***************************************************************************)
(* Bit proofs verified under a public key other than the prover's          *)
(***************************************************************************)
\* verify of the issued proof and the same statement (C, C') under a public
\* key other than the one prove was given
BitVerifyOtherKey ==
    /\ call = "prove"
    /\ \E other_y \in Elements \ {input.y} :
       \E fresh \in Digests(oracle, bit_transcript(proof.B, input.ciphertext, input.c_prime)) :
          /\ verdict' = [y        |-> other_y,
                         accepted |-> bit_verify(proof, input.ciphertext, input.c_prime,
                                                 other_y, oracle, fresh)]
          /\ oracle' = record_hash(oracle,
                          bit_transcript(proof.B, input.ciphertext, input.c_prime), fresh)
    /\ call' = "verify_other_key"
    /\ UNCHANGED <<input, issued, proof>>

BitKeyNext == BitProve \/ BitVerifyOtherKey

SpecBitKey == BitInit /\ [][BitKeyNext]_vars

\* C30: the bit-proof challenge binds the whole statement: the hashed bytes
\* include the generator g and the public key y next to B, C and C', so
\* that verifying the same (B, D, C, C') under a different y hashes a byte
\* string other than the one prove hashed (two byte strings have then been
\* hashed in all).
C30_ChallengeBindsPublicKey ==
    (call = "verify_other_key" /\ verdict.y # input.y) =>
        Cardinality(DOMAIN oracle) = Cardinality({input.y, verdict.y})

=============================================================================
